---- MODULE Spec2Model ----
(***************************************************************************)
(* Facebook Marketplace phone monitor: the listing filter, the dedup       *)
(* tracker (Seen Set) and the polling loop of FacebookMarketplaceMonitor.  *)
(*                                                                         *)
(* Text is a sequence of one-character strings, a listing is a function    *)
(* from the keys it carries to text (a Python dict), and a list of         *)
(* listings returned by a method is a sequence of references (indices)     *)
(* into the list it was handed, because the methods return the very dict   *)
(* objects they were given.                                                *)
(***************************************************************************)
EXTENDS Integers, Sequences, FiniteSets, TLC

VARIABLES
  MIN_PRICE,      \* Config.MIN_PRICE
  MAX_PRICE,      \* Config.MAX_PRICE
  seen_listings,  \* FacebookMarketplaceMonitor.seen_listings
  is_monitoring,  \* FacebookMarketplaceMonitor.is_monitoring
  last_check,     \* FacebookMarketplaceMonitor.last_check (a logical clock)
  op,             \* the operation the call records below are of
  keywords,       \* filter_listings: the keywords argument
  raw,            \* filter_listings: the listings argument as it was handed in
  heap,           \* filter_listings: the same dict objects after the call
  filtered,       \* filter_listings: the returned list, as references into heap
  candidates,     \* get_new_listings: the listings argument
  new_listings,   \* get_new_listings: the returned list, as references into candidates
  seen_entry,     \* get_new_listings: seen_listings when the call was entered
  reset,          \* get_new_listings: the wholesale clear ran in this call
  cold,           \* get_new_listings: the call returned through the cold-start branch
  repeat,         \* get_new_listings: the call got the same batch as the call before it
  loops,          \* where each call of start_monitoring stands
  stopping,       \* per loop: stop_monitoring was called while it ran, its loop test is to come
  status,         \* get_monitoring_status: the dict returned last
  DISCORD_WEBHOOK_URL,  \* Config.DISCORD_WEBHOOK_URL
  bot,            \* how far DiscordWebhookBot() and its close() have got
  monitoring_task,      \* DiscordWebhookBot.monitoring_task: None (0) or a task
  starts,         \* DiscordWebhookBot.start_monitoring calls awaiting the startup message
  callback,       \* handle_new_listings: per task, the listings handed over and the deliveries
  posted,         \* a POST to the webhook has been made
  undelivered     \* the identities of listings whose delivery failed

vars == <<MIN_PRICE, MAX_PRICE, seen_listings, is_monitoring, last_check, op,
          keywords, raw, heap, filtered, candidates, new_listings, seen_entry,
          reset, cold, repeat, loops, stopping, status, DISCORD_WEBHOOK_URL, bot,
          monitoring_task, starts, callback, posted, undelivered>>

config == <<MIN_PRICE, MAX_PRICE>>
monitor == <<seen_listings, is_monitoring, last_check>>
filterCall == <<keywords, raw, heap, filtered>>
dedupCall == <<candidates, new_listings, seen_entry, reset, cold, repeat>>
statusCall == <<status>>
botState == <<DISCORD_WEBHOOK_URL, bot, monitoring_task, starts, callback, posted, undelivered>>

----------------------------------------------------------------------------
(* Text *)

AsciiUpper == <<"A","B","C","D","E","F","G","H","I","J","K","L","M","N","O","P","Q","R","S","T","U","V","W","X","Y","Z">>
AsciiLower == <<"a","b","c","d","e","f","g","h","i","j","k","l","m","n","o","p","q","r","s","t","u","v","w","x","y","z">>
Digits == <<"0","1","2","3","4","5","6","7","8","9">>

\* str.lower() on one character
LowerChar(c) ==
  IF \E i \in 1..Len(AsciiUpper) : AsciiUpper[i] = c
    THEN AsciiLower[CHOOSE i \in 1..Len(AsciiUpper) : AsciiUpper[i] = c]
    ELSE c

\* str.lower()
lower(s) == [i \in 1..Len(s) |-> LowerChar(s[i])]

\* Python's `sub in s` on strings
In(sub, s) == \E i \in 0..(Len(s) - Len(sub)) : \A k \in 1..Len(sub) : s[i + k] = sub[k]

\* str.startswith
startswith(s, prefix) == Len(s) >= Len(prefix) /\ \A k \in 1..Len(prefix) : s[k] = prefix[k]

IsDigit(c) == \E i \in 1..Len(Digits) : Digits[i] = c
DigitVal(c) == (CHOOSE i \in 1..Len(Digits) : Digits[i] = c) - 1

\* the greedy \d+ that starts at position i (s[i] is a digit)
DigitRun(s, i) ==
  LET e == CHOOSE j \in i..Len(s) :
             /\ \A k \in i..j : IsDigit(s[k])
             /\ (j = Len(s) \/ ~IsDigit(s[j + 1]))
  IN SubSeq(s, i, e)

MinOf(S) == CHOOSE m \in S : \A n \in S : m <= n

\* a failed re.search; a successful one is its group(1), which is never empty
None == <<>>

\* re.search(r'[\£](\d+)', s): the leftmost pound sign that a digit follows
search_pound(s) ==
  LET at == {i \in 1..(Len(s) - 1) : s[i] = "£" /\ IsDigit(s[i + 1])}
  IN IF at = {} THEN None ELSE DigitRun(s, MinOf(at) + 1)

\* re.search(r'[\$€]?(\d+)', s): the leftmost place where an optional dollar or
\* euro sign and then a digit match; the optional sign is taken when present
search_any(s) ==
  LET signed(i) == s[i] \in {"$", "€"} /\ i < Len(s) /\ IsDigit(s[i + 1])
      at == {i \in 1..Len(s) : signed(i) \/ IsDigit(s[i])}
  IN IF at = {} THEN None
     ELSE LET i == MinOf(at) IN DigitRun(s, IF signed(i) THEN i + 1 ELSE i)

RECURSIVE int(_)
\* int() of a run of digits
int(ds) == IF ds = <<>> THEN 0 ELSE 10 * int(SubSeq(ds, 1, Len(ds) - 1)) + DigitVal(ds[Len(ds)])

RECURSIVE str(_)
\* an integer as an f-string formats it
str(n) ==
  IF n < 0 THEN <<"-">> \o str(-n)
  ELSE IF n < 10 THEN <<Digits[n + 1]>>
  ELSE str(n \div 10) \o <<Digits[(n % 10) + 1]>>

----------------------------------------------------------------------------
(* Listings *)

\* the value None in a field of a listing, which is no text
PyNone == <<"NoneType">>

\* dict.get(k, '')
Get(d, k) == IF k \in DOMAIN d THEN d[k] ELSE <<>>

\* d[k] = v
SetItem(d, k, v) == [x \in (DOMAIN d) \cup {k} |-> IF x = k THEN v ELSE d[x]]

\* a dict from a record
Dict(r) == [x \in DOMAIN r |-> r[x]]

\* hashlib.md5(content.encode()).hexdigest(): distinct contents have distinct
\* digests, so the digest is represented by the content it was computed from
md5(content) == <<"md5", content>>

\* the identity as it would be with the description hashed as well
generate_listing_id_with_description(listing) ==
  md5(Get(listing, "title") \o Get(listing, "price") \o Get(listing, "location")
        \o Get(listing, "description"))

generate_listing_id(listing) ==
  LET content == Get(listing, "title") \o Get(listing, "price") \o Get(listing, "location")
  IN md5(content)

----------------------------------------------------------------------------
(* Configuration *)

MONITORED_BRANDS == <<<<"i","P","h","o","n","e">>, <<"S","a","m","s","u","n","g">>>>

iphone_keywords ==
  << <<"i","P","h","o","n","e"," ","1","5">>, <<"i","P","h","o","n","e"," ","1","4">>, <<"i","P","h","o","n","e"," ","1","3">>, <<"i","P","h","o","n","e"," ","1","2">>,
     <<"i","P","h","o","n","e"," ","1","1">>, <<"i","P","h","o","n","e"," ","X","S">>, <<"i","P","h","o","n","e"," ","X","R">>, <<"i","P","h","o","n","e"," ","X">>,
     <<"i","P","h","o","n","e"," ","S","E">>, <<"i","P","h","o","n","e"," ","P","r","o">>, <<"i","P","h","o","n","e"," ","P","l","u","s">>, <<"i","P","h","o","n","e"," ","M","i","n","i">> >>

samsung_keywords ==
  << <<"S","a","m","s","u","n","g"," ","G","a","l","a","x","y"," ","S","2","4">>, <<"S","a","m","s","u","n","g"," ","G","a","l","a","x","y"," ","S","2","3">>, <<"S","a","m","s","u","n","g"," ","G","a","l","a","x","y"," ","S","2","2">>,
     <<"S","a","m","s","u","n","g"," ","G","a","l","a","x","y"," ","S","2","1">>, <<"S","a","m","s","u","n","g"," ","G","a","l","a","x","y"," ","N","o","t","e">>, <<"S","a","m","s","u","n","g"," ","G","a","l","a","x","y"," ","A">>,
     <<"S","a","m","s","u","n","g"," ","G","a","l","a","x","y"," ","Z">>, <<"G","a","l","a","x","y"," ","S","2","4">>, <<"G","a","l","a","x","y"," ","S","2","3">>, <<"G","a","l","a","x","y"," ","S","2","2">> >>

RECURSIVE keywords_of(_)
\* the loop of Config.get_search_keywords over the brands
keywords_of(brands) ==
  IF brands = <<>> THEN <<>>
  ELSE LET brand == Head(brands)
           more == IF lower(brand) = <<"i","p","h","o","n","e">> THEN iphone_keywords
                   ELSE IF lower(brand) = <<"s","a","m","s","u","n","g">> THEN samsung_keywords
                   ELSE <<>>
       IN more \o keywords_of(Tail(brands))

get_search_keywords == keywords_of(MONITORED_BRANDS)

----------------------------------------------------------------------------
(* FacebookMarketplaceMonitor.filter_listings *)

exclude_terms ==
  << <<"c","a","s","e">>, <<"c","o","v","e","r">>, <<"c","h","a","r","g","e","r">>, <<"c","a","b","l","e">>, <<"s","c","r","e","e","n"," ","p","r","o","t","e","c","t","o","r">>, <<"w","a","r","r","a","n","t","y">>, <<"a","c","c","e","s","s","o","r","i","e","s">> >>

\* the price the filter reads off a price string, None when it has no digits
price_match(price_str) ==
  IF search_pound(price_str) # None THEN search_pound(price_str) ELSE search_any(price_str)

\* the price test of filter_listings
in_price_range(price) == ~(price < MIN_PRICE \/ price > MAX_PRICE)

\* the exclusion test as it would be if it looked at the head of the title only
is_excluded_at_head(title) == \E i \in 1..Len(exclude_terms) : startswith(title, exclude_terms[i])

\* the test for obvious non-phone items, on the lower-cased title
is_excluded(title) == \E i \in 1..Len(exclude_terms) : In(exclude_terms[i], title)

\* the price as it would be if it were rewritten whatever its prefix
in_pounds_always(listing, price_str, price) == SetItem(listing, "price", <<"£">> \o str(price))

\* the listing with its price shown in pounds
in_pounds(listing, price_str, price) ==
  IF ~startswith(price_str, <<"£">>)
    THEN SetItem(listing, "price", <<"£">> \o str(price))
    ELSE listing

\* the pass as it would be if it read the price off a failed match
filter_step_unguarded(listing, kws) ==
  LET title == lower(Get(listing, "title"))
      description == lower(Get(listing, "description"))
      combined_text == title \o <<" ">> \o description
      price_str == Get(listing, "price")
      matches_keyword == \E i \in 1..Len(kws) : In(lower(kws[i]), combined_text)
      match == price_match(price_str)
      price == int(match)
      continue == [keep |-> FALSE, listing |-> listing, raised |-> FALSE]
      raise == [keep |-> FALSE, listing |-> listing, raised |-> TRUE]
  IN IF Get(listing, "title") = PyNone \/ Get(listing, "description") = PyNone THEN raise
     ELSE IF ~matches_keyword THEN continue
     ELSE IF price_str = PyNone \/ match = None THEN raise
     ELSE IF ~in_price_range(price) THEN continue
     ELSE IF is_excluded(title) THEN continue
     ELSE [keep |-> TRUE, listing |-> in_pounds(listing, price_str, price), raised |-> FALSE]

\* one pass of the body of the for loop of filter_listings: whether the listing
\* is appended, the listing as the pass leaves it, and whether the pass raised
\* (None has no lower(), and re.search takes no None)
filter_step(listing, kws) ==
  LET title == lower(Get(listing, "title"))
      description == lower(Get(listing, "description"))
      combined_text == title \o <<" ">> \o description
      price_str == Get(listing, "price")
      matches_keyword == \E i \in 1..Len(kws) : In(lower(kws[i]), combined_text)
      match == price_match(price_str)
      price == int(match)
      continue == [keep |-> FALSE, listing |-> listing, raised |-> FALSE]
      raise == [keep |-> FALSE, listing |-> listing, raised |-> TRUE]
  IN IF Get(listing, "title") = PyNone \/ Get(listing, "description") = PyNone THEN raise
     ELSE IF ~matches_keyword THEN continue
     ELSE IF price_str = PyNone THEN raise
     ELSE IF match # None /\ ~in_price_range(price) THEN continue
     ELSE IF match = None THEN continue
     ELSE IF is_excluded(title) THEN continue
     ELSE [keep |-> TRUE, listing |-> in_pounds(listing, price_str, price), raised |-> FALSE]

RECURSIVE filter_loop(_, _, _, _, _)
\* the for loop of filter_listings over the listings lo..hi, in list order; acc
\* holds the dict objects (rewritten in place), the references appended so far
\* and whether a pass raised, which ends the loop. The range is halved, and the
\* first half is evaluated (by the test on it) before the second begins, so that
\* a long list does not nest the passes deeply.
filter_loop(kws, lo, hi, n, acc) ==
  IF lo > hi \/ acc.raised THEN acc
  ELSE IF lo = hi
    THEN LET r == filter_step(acc.listings[lo], kws)
         IN IF r.raised THEN [acc EXCEPT !.raised = TRUE]
            ELSE IF r.keep
              THEN [listings |-> [acc.listings EXCEPT ![lo] = r.listing],
                    filtered |-> Append(acc.filtered, lo), raised |-> FALSE]
              ELSE acc
  ELSE LET mid == (lo + hi) \div 2
           first == filter_loop(kws, lo, mid, n, acc)
       IN IF Len(first.listings) = n
            THEN filter_loop(kws, mid + 1, hi, n, first)
            ELSE first

\* the dict objects after the call, and the list returned unless the call raised
filter_listings(listings, kws) ==
  filter_loop(kws, 1, Len(listings), Len(listings),
              [listings |-> listings, filtered |-> <<>>, raised |-> FALSE])

\* the listings a list of references stands for
Deref(objs, refs) == [k \in 1..Len(refs) |-> objs[refs[k]]]

----------------------------------------------------------------------------
(* FacebookMarketplaceMonitor.get_new_listings *)

\* the seen-set size above which get_new_listings clears the set
SEEN_RESET_LIMIT == 1000
\* the seen-set size below which get_new_listings sends test listings
STARTUP_SEEN_LIMIT == 5
\* how many test listings the cold-start branch sends: listings[:2]
TEST_LISTINGS == 2

\* the pass as it would be if it put the new listing at the head of the list
dedup_step_prepending(listings, i, acc) ==
  LET listing_id == generate_listing_id(listings[i])
  IN IF listing_id \notin acc.seen
       THEN [seen |-> acc.seen \cup {listing_id}, new_listings |-> <<i>> \o acc.new_listings]
       ELSE acc

\* the pass as it would be if it did not add the identity to the seen set
dedup_step_not_marking(listings, i, acc) ==
  LET listing_id == generate_listing_id(listings[i])
  IN IF listing_id \notin acc.seen
       THEN [seen |-> acc.seen, new_listings |-> Append(acc.new_listings, i)]
       ELSE acc

\* one pass of the body of the for loop of get_new_listings, on the i-th listing
dedup_step(listings, i, acc) ==
  LET listing_id == generate_listing_id(listings[i])
  IN IF listing_id \notin acc.seen
       THEN [seen |-> acc.seen \cup {listing_id}, new_listings |-> Append(acc.new_listings, i)]
       ELSE acc

RECURSIVE dedup_loop(_, _, _, _)
\* the for loop of get_new_listings over the listings lo..hi, in list order. The
\* range is halved, and the first half is evaluated (by the test on it) before
\* the second begins, so that a long list does not nest the passes deeply.
dedup_loop(listings, lo, hi, acc) ==
  IF lo > hi THEN acc
  ELSE IF lo = hi THEN dedup_step(listings, lo, acc)
  ELSE LET mid == (lo + hi) \div 2
           first == dedup_loop(listings, lo, mid, acc)
       IN IF Len(first.new_listings) >= 0
            THEN dedup_loop(listings, mid + 1, hi, first)
            ELSE first

\* the reset as it would be if it ran at the limit already
reset_check_at_limit(seen) == IF Cardinality(seen) >= SEEN_RESET_LIMIT THEN {} ELSE seen

\* the reset as it would be if it never ran
reset_check_skipped(seen) == seen

\* the periodic reset at the head of get_new_listings
reset_check(seen) == IF Cardinality(seen) > SEEN_RESET_LIMIT THEN {} ELSE seen

\* listings[:n], as references
FirstRefs(listings, n) == [k \in 1..(IF Len(listings) < n THEN Len(listings) ELSE n) |-> k]

\* the startup test as it would be if it held at the limit too
is_startup_at_limit(listings, seen, new) ==
  Len(new) = 0 /\ Cardinality(seen) <= STARTUP_SEEN_LIMIT /\ Len(listings) > 0

\* the startup test as it would be if it did not ask for an empty list of new listings
is_startup_with_new(listings, seen, new) ==
  Cardinality(seen) < STARTUP_SEEN_LIMIT /\ Len(listings) > 0

\* the branch that sends the first listings again "for testing"
is_startup(listings, seen, new) ==
  Len(new) = 0 /\ Cardinality(seen) < STARTUP_SEEN_LIMIT /\ Len(listings) > 0

\* get_new_listings on the seen set `seen`: the seen set it leaves, the list it
\* returns, and which of its two branches ran
get_new_listings(listings, seen) ==
  LET start == [seen |-> reset_check(seen), new_listings |-> <<>>]
      r == dedup_loop(listings, 1, Len(listings), start)
      test_listings == FirstRefs(listings, TEST_LISTINGS)
      test_ids == {generate_listing_id(listings[test_listings[k]]) : k \in 1..Len(test_listings)}
  IN IF is_startup(listings, r.seen, r.new_listings)
       THEN [seen |-> r.seen \cup test_ids, new_listings |-> test_listings,
             reset |-> start.seen # seen, cold |-> TRUE]
       ELSE [seen |-> r.seen, new_listings |-> r.new_listings,
             reset |-> start.seen # seen, cold |-> FALSE]

----------------------------------------------------------------------------
(* Inputs *)

\* the biggest list of raw listings handed to filter_listings
MaxRaw == 2
\* the biggest list of hand-picked candidates handed to get_new_listings
MaxBatch == 2
\* the biggest list of hand-picked raw listings the Listing Source returns
MaxFetch == 1
\* how many calls of start_monitoring are followed
MaxLoops == 2
\* the readings of the clock that are told apart
MaxClock == 2
\* the sizes of three batches of distinct listings
OneBlockSize == 1
SmallBlockSize == 2
BulkBlockSize == 996
\* the size of a batch of distinct listings that is longer than the reset limit
LongBlockSize == 1001

\* all sequences over S of length at most n
SeqUpTo(S, n) == UNION {[1..k -> S] : k \in 0..n}

\* MIN_PRICE and MAX_PRICE as the environment may set them (0 and 200 by default)
Configs == { <<0, 200>>, <<150, 150>> }

KeywordLists == { get_search_keywords, <<<<"i","P","h","o","n","e">>>> }

London == <<"L","o","n","d","o","n">>

Listing(title, price, location, description) ==
  Dict([title |-> title, price |-> price, location |-> location, description |-> description])

\* price fields: around the bounds of both configurations, with and without the
\* pound sign, with another currency sign, with leading zeros, without digits
PriceTexts ==
  { <<"-","1">>, <<"£","-","1">>, <<"£","0">>, <<"£","1","4","9">>, <<"1","5","0">>, <<"£","1","5","0">>, <<"£","1","5","1">>, <<"£","2","0","0">>, <<"2","0","1">>, <<"£","2","0","1">>,
    <<"0","1","5","0">>, <<"$","1","5","0">>, <<"$","5"," ","£","1","5","0">>, <<"£"," ","1","5","0">>, <<"F","r","e","e">>, <<>> }

\* title and description pairs: an exclusion term in the title, in the
\* description only, no keyword, a keyword in the description only, a keyword
\* that runs from the title into the description
Texts ==
  { <<<<"i","P","h","o","n","e"," ","1","3"," ","C","a","s","e">>, <<>>>>,
    <<<<"I","P","H","O","N","E"," ","1","3"," ","C","O","V","E","R">>, <<>>>>,
    <<<<"i","P","h","o","n","e"," ","1","3">>, <<"w","i","t","h"," ","c","a","s","e"," ","a","n","d"," ","c","h","a","r","g","e","r">>>>,
    <<<<"N","o","k","i","a"," ","3","3","1","0">>, <<>>>>,
    <<<<"P","h","o","n","e">>, <<"i","p","h","o","n","e"," ","1","3"," ","b","o","x","e","d">>>>,
    <<<<"A","p","p","l","e"," ","i","P","h","o","n","e">>, <<"1","3"," ","P","r","o">>>> }

\* raw listings as the Listing Source may hand them over; the last two are one
\* without a price field and one whose title is None
RawPool ==
  {Listing(<<"i","P","h","o","n","e"," ","1","3"," ","1","2","8","G","B">>, p, London, <<>>) : p \in PriceTexts}
    \cup {Listing(t[1], <<"£","1","5","0">>, London, t[2]) : t \in Texts}
    \cup { Dict([title |-> <<"i","P","h","o","n","e"," ","1","3"," ","1","2","8","G","B">>, location |-> London]),
           Dict([title |-> PyNone, price |-> <<"£","1","5","0">>, location |-> London]) }

\* candidates for the dedup tracker; the first two differ in description, url and
\* timestamp only
cA == Listing(<<"i","P","h","o","n","e"," ","1","3"," ","1","2","8","G","B">>, <<"£","1","5","0">>, London, <<>>)
cA2 == Dict([title |-> <<"i","P","h","o","n","e"," ","1","3"," ","1","2","8","G","B">>, price |-> <<"£","1","5","0">>, location |-> London,
             description |-> <<"b","o","x","e","d">>, url |-> <<"f","b",".","c","o","m","/","1">>, timestamp |-> <<"2","0","2","5">>])
cB == Listing(<<"i","P","h","o","n","e"," ","1","2">>, <<"£","1","4","0">>, <<"L","e","e","d","s">>, <<>>)
CandidatePool == {cA, cA2, cB}

\* the k-th of a run of listings that differ in location only
Filler(k) == Listing(<<"i","P","h","o","n","e"," ","1","5">>, <<"£","1">>, str(k), <<>>)
OneBlock == [k \in 1..OneBlockSize |-> Filler(k)]
SmallBlock == [k \in 1..SmallBlockSize |-> Filler(OneBlockSize + k)]
BulkBlock == [k \in 1..BulkBlockSize |-> Filler(OneBlockSize + SmallBlockSize + k)]

\* three candidates, two identities
Triple == <<cA, cA2, cB>>

CandidateBatches == SeqUpTo(CandidatePool, MaxBatch) \cup {Triple, OneBlock, SmallBlock, BulkBlock}

----------------------------------------------------------------------------
(* The state after FacebookMarketplaceMonitor.__init__, nothing called yet *)

\* no get_monitoring_status call was the last step
NoStatus == <<>>

\* handle_new_listings has not been handed anything
NoCallback == [listings |-> <<>>, k |-> 0, attempts |-> <<>>]

\* no DiscordWebhookBot has been made
NoBot ==
  /\ DISCORD_WEBHOOK_URL = <<"h","t","t","p","s",":","/","/","d","i","s","c","o","r","d",".","c","o","m","/","a","p","i","/","w","e","b","h","o","o","k","s","/","1">>
  /\ bot = "none"
  /\ monitoring_task = 0
  /\ starts = 0
  /\ callback = [t \in 1..MaxLoops |-> NoCallback]
  /\ posted = FALSE
  /\ undelivered = {}

Constructed ==
  /\ seen_listings = {}
  /\ is_monitoring = FALSE
  /\ last_check = 0
  /\ op = "init"
  /\ keywords = <<>> /\ raw = <<>> /\ heap = <<>> /\ filtered = <<>>
  /\ candidates = <<>> /\ new_listings = <<>> /\ seen_entry = {}
  /\ reset = FALSE /\ cold = FALSE /\ repeat = FALSE
  /\ loops = [t \in 1..MaxLoops |-> "unborn"]
  /\ stopping = [t \in 1..MaxLoops |-> FALSE]
  /\ status = NoStatus

----------------------------------------------------------------------------
(* filter_listings called on its own *)

InitFilter ==
  /\ \E c \in Configs : MIN_PRICE = c[1] /\ MAX_PRICE = c[2]
  /\ seen_listings = {} /\ is_monitoring = FALSE /\ last_check = 0
  /\ loops = [t \in 1..MaxLoops |-> "unborn"]
  /\ stopping = [t \in 1..MaxLoops |-> FALSE]
  /\ op = "init"
  /\ keywords \in KeywordLists
  /\ raw \in SeqUpTo(RawPool, MaxRaw)
  /\ heap = raw /\ filtered = <<>>
  /\ candidates = <<>> /\ new_listings = <<>> /\ seen_entry = {}
  /\ reset = FALSE /\ cold = FALSE /\ repeat = FALSE
  /\ status = NoStatus
  /\ NoBot

FilterListings ==
  /\ op = "init"
  /\ \E r \in {filter_listings(raw, keywords)} :
       /\ heap' = r.listings
       /\ filtered' = IF r.raised THEN <<>> ELSE r.filtered
       /\ op' = IF r.raised THEN "filter_listings_raised" ELSE "filter_listings"
  /\ UNCHANGED <<config, monitor, keywords, raw, dedupCall, loops, stopping, statusCall, botState>>

NextFilter == FilterListings

SpecFilter == InitFilter /\ [][NextFilter]_vars

----------------------------------------------------------------------------
(* get_new_listings called on its own, any number of times *)

InitDedup ==
  /\ MIN_PRICE = 0 /\ MAX_PRICE = 200
  /\ Constructed
  /\ NoBot

GetNewListings(listings) ==
  /\ \E r \in {get_new_listings(listings, seen_listings)} :
       /\ seen_listings' = r.seen
       /\ new_listings' = r.new_listings
       /\ reset' = r.reset
       /\ cold' = r.cold
  /\ candidates' = listings
  /\ seen_entry' = seen_listings
  /\ repeat' = (op = "get_new_listings" /\ candidates = listings)
  /\ op' = "get_new_listings"
  /\ UNCHANGED <<config, is_monitoring, last_check, filterCall, loops, stopping, statusCall, botState>>

\* the long batch comes, if at all, as the first one
NextDedup ==
  \E listings \in CandidateBatches :
    /\ listings = BulkBlock => op = "init"
    /\ GetNewListings(listings)

SpecDedup == InitDedup /\ [][NextDedup]_vars

----------------------------------------------------------------------------
(* The polling loop: FacebookMarketplaceMonitor.start_monitoring,            *)
(* check_for_new_listings, stop_monitoring and get_monitoring_status.        *)
(*                                                                           *)
(* A call of start_monitoring is a coroutine; it gives way at the await of   *)
(* the Listing Source, at the await of the callback and at the sleep, and    *)
(* runs undisturbed between these.  The except branch of the loop is not     *)
(* modelled: check_for_new_listings and the callback it is started with,     *)
(* DiscordWebhookBot.handle_new_listings, catch every Exception themselves.  *)
(***************************************************************************)

\* raw listings the Listing Source returns in the cycles: a candidate priced
\* without the pound sign, a second candidate, an accessory, and a record whose
\* title is None
rBare == Listing(<<"i","P","h","o","n","e"," ","1","3"," ","1","2","8","G","B">>, <<"1","5","0">>, London, <<>>)
rCase == Listing(<<"i","P","h","o","n","e"," ","1","3"," ","C","a","s","e">>, <<"£","1","5","0">>, London, <<>>)
rNone == Dict([title |-> PyNone, price |-> <<"£","1","5","0">>, location |-> London])
FetchPool == {rBare, cB, rCase}

\* a batch long enough to take the seen set over its reset limit
LongBlock == [k \in 1..LongBlockSize |-> Filler(k)]

\* batches the filter raises on, at once and after it has rewritten a price
BadBatches == { <<rNone>>, <<rBare, rNone>> }

\* both candidates in one batch
Pair == <<rBare, cB>>

FetchBatches == SeqUpTo(FetchPool, MaxFetch) \cup {Pair, LongBlock} \cup BadBatches

\* datetime.now(): a reading that differs from the one before
now == (last_check % MaxClock) + 1

InitSpec ==
  /\ MIN_PRICE = 0 /\ MAX_PRICE = 200
  /\ Constructed
  /\ NoBot

\* start_monitoring up to its first await: the flag is set, the loop test passes
\* and check_for_new_listings awaits the Listing Source
StartMonitoring(t) ==
  /\ loops[t] = "unborn"
  /\ is_monitoring' = TRUE
  /\ loops' = [loops EXCEPT ![t] = "fetch"]
  /\ status' = NoStatus
  /\ UNCHANGED <<config, stopping, seen_listings, last_check, op, filterCall, dedupCall, botState>>

\* the rest of check_for_new_listings once fetch_marketplace_listings has returned
\* all_listings (call tells how), with the list it returns to the loop of task t
\* kept in callback[t]; when filter_listings raises, the except branch returns []
\* and the record of get_new_listings is that of no call
Check(t, all_listings, call) ==
  /\ loops[t] = "fetch"
  /\ \E f \in {filter_listings(all_listings, get_search_keywords)} :
       /\ keywords' = get_search_keywords
       /\ raw' = all_listings
       /\ heap' = f.listings
       /\ IF f.raised
            THEN /\ filtered' = <<>>
                 /\ op' = "filter_listings_raised"
                 /\ callback' = [callback EXCEPT ![t] = NoCallback]
                 /\ candidates' = <<>> /\ new_listings' = <<>>
                 /\ reset' = FALSE /\ cold' = FALSE /\ repeat' = FALSE
                 /\ seen_entry' = seen_listings
                 /\ UNCHANGED <<seen_listings, last_check>>
            ELSE /\ filtered' = f.filtered
                 /\ op' = call
                 /\ \E phone_listings \in {Deref(f.listings, f.filtered)} :
                      \E r \in {get_new_listings(phone_listings, seen_listings)} :
                        /\ candidates' = phone_listings
                        /\ repeat' = (last_check # 0 /\ candidates = phone_listings)
                        /\ seen_listings' = r.seen
                        /\ new_listings' = r.new_listings
                        /\ reset' = r.reset
                        /\ cold' = r.cold
                        /\ callback' = [callback EXCEPT ![t] =
                             [NoCallback EXCEPT !.listings = Deref(phone_listings, r.new_listings)]]
                 /\ seen_entry' = seen_listings
                 /\ last_check' = now
  /\ UNCHANGED <<config, stopping, is_monitoring>>

\* the loop as it would be if it awaited the callback whatever the list
AfterCheck_always_calling(t) ==
  /\ loops' = [loops EXCEPT ![t] = "callback"]
  /\ status' = NoStatus
  /\ UNCHANGED <<DISCORD_WEBHOOK_URL, bot, monitoring_task, starts, posted, undelivered>>

\* the loop of start_monitoring after check_for_new_listings has returned, up to
\* its next await: the callback when the list is not empty, else the sleep
AfterCheck(t) ==
  /\ loops' = [loops EXCEPT ![t] = IF callback'[t].listings # <<>> THEN "callback" ELSE "sleep"]
  /\ status' = NoStatus
  /\ UNCHANGED <<DISCORD_WEBHOOK_URL, bot, monitoring_task, starts, posted, undelivered>>

\* the Listing Source returns a batch; the long batch comes, if at all, first
CheckForNewListings(t) ==
  \E all_listings \in FetchBatches :
    /\ all_listings = LongBlock => last_check = 0
    /\ Check(t, all_listings, "check_for_new_listings")
    /\ AfterCheck(t)

\* the failure as it would be if the listings fetched last were handed on
FetchFails_stale(t) ==
  /\ Check(t, raw, "fetch_failed")
  /\ AfterCheck(t)

\* the Listing Source raises: fetch_marketplace_listings logs and returns []
FetchFails(t) ==
  /\ Check(t, <<>>, "fetch_failed")
  /\ AfterCheck(t)

\* the awaited callback returns; the loop goes to sleep for check_interval
CallbackReturns(t) ==
  /\ loops[t] = "callback"
  /\ loops' = [loops EXCEPT ![t] = "sleep"]
  /\ callback' = [callback EXCEPT ![t] = NoCallback]
  /\ status' = NoStatus
  /\ UNCHANGED <<config, stopping, monitor, op, filterCall, dedupCall,
                 DISCORD_WEBHOOK_URL, bot, monitoring_task, starts, posted, undelivered>>

\* the sleep is over: the loop test, and either the next cycle up to its await
\* of the Listing Source or the end of start_monitoring
Wake(t) ==
  /\ loops[t] = "sleep"
  /\ loops' = [loops EXCEPT ![t] = IF is_monitoring THEN "fetch" ELSE "ended"]
  /\ stopping' = [stopping EXCEPT ![t] = FALSE]
  /\ status' = NoStatus
  /\ UNCHANGED <<config, monitor, op, filterCall, dedupCall, botState>>

\* the places of a loop that has begun and has not ended
Running == {"fetch", "callback", "post", "pace", "sleep"}

\* stop_monitoring as it would be if it gave the monitor a fresh seen set
StopMonitoring_forgetting ==
  /\ is_monitoring' = FALSE
  /\ stopping' = [t \in 1..MaxLoops |-> loops[t] \in Running]
  /\ seen_listings' = {}
  /\ status' = NoStatus
  /\ UNCHANGED <<config, last_check, op, filterCall, dedupCall, loops, botState>>

StopMonitoring ==
  /\ is_monitoring' = FALSE
  /\ stopping' = [t \in 1..MaxLoops |-> loops[t] \in Running]
  /\ status' = NoStatus
  /\ UNCHANGED <<config, seen_listings, last_check, op, filterCall, dedupCall, loops, botState>>

\* datetime.isoformat(): readings of the clock that differ give texts that differ
isoformat(t) == <<"isoformat", t>>

\* the status dict as it would be if building it touched the time of the last check
GetMonitoringStatus_touching ==
  /\ last_check' = now
  /\ status' = [is_monitoring |-> is_monitoring,
                last_check |-> isoformat(now),
                total_seen_listings |-> Cardinality(seen_listings)]
  /\ UNCHANGED <<config, stopping, seen_listings, is_monitoring, op, filterCall, dedupCall, loops, botState>>

\* the status dict is built from reads only
GetMonitoringStatus ==
  /\ status' = [is_monitoring |-> is_monitoring,
                last_check |-> isoformat(last_check),
                total_seen_listings |-> Cardinality(seen_listings)]
  /\ UNCHANGED <<config, stopping, monitor, op, filterCall, dedupCall, loops, botState>>

Next ==
  \/ \E t \in 1..MaxLoops : StartMonitoring(t)
  \/ \E t \in 1..MaxLoops : CheckForNewListings(t)
  \/ \E t \in 1..MaxLoops : FetchFails(t)
  \/ \E t \in 1..MaxLoops : CallbackReturns(t)
  \/ \E t \in 1..MaxLoops : Wake(t)
  \/ StopMonitoring
  \/ GetMonitoringStatus

Spec == InitSpec /\ [][Next]_vars

----------------------------------------------------------------------------
(* The webhook bot: Config.validate_config, DiscordWebhookBot and main.      *)
(*                                                                           *)
(* The tasks made by asyncio.create_task are the loops 1..MaxLoops.  A task  *)
(* is looked at by the rest of the program only while it is suspended: with  *)
(* FacebookConnector.search_marketplace the await of the Listing Source      *)
(* returns at once, so a task at "fetch" or at "callback" runs on, and the   *)
(* places where it waits are the POST of a notification ("post"), the pause  *)
(* after it ("pace") and the sleep of the loop ("sleep").                    *)
(***************************************************************************)

\* truth value of an environment variable: None and '' are false
Truthy(x) == x # PyNone /\ x # <<>>

\* validate_config as it would be if it accepted any configuration
validate_config_accepting == TRUE

\* Config.validate_config: TRUE, or FALSE where the code raises ValueError
validate_config == Truthy(DISCORD_WEBHOOK_URL)

\* a listing that names a phone in its description only
rUntitled == Dict([description |-> <<"i","P","h","o","n","e"," ","1","3"," ","b","o","x","e","d">>, price |-> <<"1","5","0">>, location |-> London])

\* the batches the Listing Source returns to the bot's tasks
BotBatches == { Pair, <<rUntitled, cB>> }

phone_terms == <<<<"i","p","h","o","n","e">>, <<"s","a","m","s","u","n","g">>, <<"g","a","l","a","x","y">>, <<"p","h","o","n","e">>, <<"s","m","a","r","t","p","h","o","n","e">>>>

is_valid_phone_listing(listing) ==
  LET title == lower(Get(listing, "title"))
      description == lower(Get(listing, "description"))
      combined_text == title \o <<" ">> \o description
      price == Get(listing, "price")
  IN /\ DOMAIN listing # {}
     /\ \E i \in 1..Len(phone_terms) : In(phone_terms[i], combined_text)
     /\ price # <<>> /\ price # <<"P","r","i","c","e"," ","n","o","t"," ","a","v","a","i","l","a","b","l","e">>
     /\ Get(listing, "title") # <<>>

\* Task.done()
done(t) == loops[t] \in {"ended", "cancelled"}

\* the task is made and not done
live(t) == loops[t] # "unborn" /\ ~done(t)

\* no task is running: each one is suspended, not made or done
Suspended == \A t \in 1..MaxLoops : loops[t] \notin {"fetch", "callback"}

\* the task create_task makes next
next_task == MinOf({t \in 1..MaxLoops : loops[t] = "unborn"})

InitBot ==
  /\ MIN_PRICE = 0 /\ MAX_PRICE = 200
  /\ Constructed
  /\ DISCORD_WEBHOOK_URL \in {PyNone, <<>>, <<"h","t","t","p","s",":","/","/","d","i","s","c","o","r","d",".","c","o","m","/","a","p","i","/","w","e","b","h","o","o","k","s","/","1">>}
  /\ bot = "none"
  /\ monitoring_task = 0
  /\ starts = 0
  /\ callback = [t \in 1..MaxLoops |-> NoCallback]
  /\ posted = FALSE
  /\ undelivered = {}

\* bot = DiscordWebhookBot() in main: when validate_config raises, the error
\* leaves main, which has no bot to run or to close
Construct ==
  /\ bot = "none"
  /\ bot' = IF validate_config THEN "ready" ELSE "failed"
  /\ status' = NoStatus
  /\ UNCHANGED <<config, stopping, monitor, op, filterCall, dedupCall, loops,
                 DISCORD_WEBHOOK_URL, monitoring_task, starts, callback, posted, undelivered>>

\* asyncio.create_task in DiscordWebhookBot.start_monitoring
CreateTask ==
  /\ loops' = [loops EXCEPT ![next_task] = "created"]
  /\ monitoring_task' = next_task

\* DiscordWebhookBot.start_monitoring up to the await of the startup message;
\* without a URL send_webhook_message returns at once and the task is made in
\* the same step
BotStartMonitoring ==
  /\ bot = "ready" /\ Suspended
  /\ ~(monitoring_task # 0 /\ ~done(monitoring_task))
  /\ starts + Cardinality({t \in 1..MaxLoops : loops[t] # "unborn"}) < MaxLoops
  /\ IF Truthy(DISCORD_WEBHOOK_URL)
       THEN /\ starts' = starts + 1
            /\ posted' = TRUE
            /\ UNCHANGED <<loops, monitoring_task>>
       ELSE /\ CreateTask
            /\ UNCHANGED <<starts, posted>>
  /\ status' = NoStatus
  /\ UNCHANGED <<config, stopping, monitor, op, filterCall, dedupCall,
                 DISCORD_WEBHOOK_URL, bot, callback, undelivered>>

\* the POST of the startup message is over, whatever its response: the call of
\* start_monitoring that awaited it makes its task
StartupSent ==
  /\ bot = "ready" /\ Suspended
  /\ starts > 0
  /\ starts' = starts - 1
  /\ CreateTask
  /\ status' = NoStatus
  /\ UNCHANGED <<config, stopping, monitor, op, filterCall, dedupCall,
                 DISCORD_WEBHOOK_URL, bot, callback, posted, undelivered>>

\* the task runs for the first time: FacebookMarketplaceMonitor.start_monitoring
\* sets the flag and comes to the Listing Source
RunTask(t) ==
  /\ Suspended
  /\ loops[t] = "created"
  /\ is_monitoring' = TRUE
  /\ loops' = [loops EXCEPT ![t] = "fetch"]
  /\ status' = NoStatus
  /\ UNCHANGED <<config, stopping, seen_listings, last_check, op, filterCall, dedupCall, botState>>

\* check_for_new_listings on what the Listing Source returns to task t
BotCheck(t) ==
  \E all_listings \in BotBatches :
    /\ Check(t, all_listings, "check_for_new_listings")
    /\ AfterCheck(t)

\* the index as it would be if the loop took the last valid listing first
next_valid_latest(listings, k) ==
  LET S == {i \in (k + 1)..Len(listings) : is_valid_phone_listing(listings[i])}
  IN IF S = {} THEN 0 ELSE CHOOSE m \in S : \A n \in S : n <= m

\* index of the first listing after the k-th that is_valid_phone_listing lets
\* through, 0 when there is none
next_valid(listings, k) ==
  LET S == {i \in (k + 1)..Len(listings) : is_valid_phone_listing(listings[i])}
  IN IF S = {} THEN 0 ELSE MinOf(S)

\* handle_new_listings from after its k-th listing up to its next await: the POST
\* of the next valid listing (without a URL, the pause after it), or its return
\* and the sleep of the loop
Advance(t, k) ==
  \E n \in {next_valid(callback[t].listings, k)} :
    IF n = 0
      THEN /\ loops' = [loops EXCEPT ![t] = "sleep"]
           /\ callback' = [callback EXCEPT ![t].k = Len(callback[t].listings)]
           /\ UNCHANGED posted
      ELSE /\ loops' = [loops EXCEPT ![t] =
                          IF Truthy(DISCORD_WEBHOOK_URL) THEN "post" ELSE "pace"]
           /\ callback' = [callback EXCEPT
                ![t].k = n,
                ![t].attempts = Append(@, [listing |-> n,
                    response |-> IF Truthy(DISCORD_WEBHOOK_URL) THEN "awaited" ELSE "none"])]
           /\ posted' = (posted \/ Truthy(DISCORD_WEBHOOK_URL))

\* the loop awaits the callback: handle_new_listings begins
HandleNewListings(t) ==
  /\ loops[t] = "callback"
  /\ Advance(t, 0)
  /\ status' = NoStatus
  /\ UNCHANGED <<config, stopping, monitor, op, filterCall, dedupCall,
                 DISCORD_WEBHOOK_URL, bot, monitoring_task, starts, undelivered>>

\* the POST of the k-th listing is over: status 204, or another status or an
\* error of the transport, which send_webhook_message logs; the pause follows
Response(t) ==
  \E ok \in BOOLEAN :
    /\ Suspended
    /\ loops[t] = "post"
    /\ loops' = [loops EXCEPT ![t] = "pace"]
    /\ callback' = [callback EXCEPT
         ![t].attempts[Len(callback[t].attempts)].response = IF ok THEN "204" ELSE "failed"]
    /\ undelivered' = IF ok THEN undelivered
                      ELSE undelivered \cup
                             {generate_listing_id(callback[t].listings[callback[t].k])}
    /\ status' = NoStatus
    /\ UNCHANGED <<config, stopping, monitor, op, filterCall, dedupCall,
                   DISCORD_WEBHOOK_URL, bot, monitoring_task, starts, posted>>

\* the pause of one second after the k-th listing is over
Paced(t) ==
  /\ Suspended
  /\ loops[t] = "pace"
  /\ Advance(t, callback[t].k)
  /\ status' = NoStatus
  /\ UNCHANGED <<config, stopping, monitor, op, filterCall, dedupCall,
                 DISCORD_WEBHOOK_URL, bot, monitoring_task, starts, undelivered>>

\* the sleep of the loop is over
BotWake(t) == Suspended /\ Wake(t)

\* Task.cancel(): a task that is not done gets CancelledError where it waits
cancel(t) ==
  loops' = IF t # 0 /\ ~done(t) THEN [loops EXCEPT ![t] = "cancelling"] ELSE loops

\* DiscordWebhookBot.stop_monitoring: the task is cancelled, the flag cleared and
\* the message posted
BotStopMonitoring ==
  /\ bot = "ready" /\ Suspended
  /\ cancel(monitoring_task)
  /\ is_monitoring' = FALSE
  /\ stopping' = [t \in 1..MaxLoops |-> loops[t] \in Running]
  /\ posted' = (posted \/ Truthy(DISCORD_WEBHOOK_URL))
  /\ status' = NoStatus
  /\ UNCHANGED <<config, seen_listings, last_check, op, filterCall, dedupCall,
                 DISCORD_WEBHOOK_URL, bot, monitoring_task, starts, callback, undelivered>>

\* CancelledError is raised in the task at its await; it is no Exception, so no
\* except branch of the loop, of handle_new_listings or of send_webhook_message
\* catches it, and the task is done
TaskCancelled(t) ==
  /\ Suspended
  /\ loops[t] = "cancelling"
  /\ loops' = [loops EXCEPT ![t] = "cancelled"]
  /\ stopping' = [stopping EXCEPT ![t] = FALSE]
  /\ status' = NoStatus
  /\ UNCHANGED <<config, monitor, op, filterCall, dedupCall, botState>>

\* DiscordWebhookBot.get_status: the status dict of the monitor, posted and returned
BotGetStatus ==
  /\ bot = "ready" /\ Suspended
  /\ status' = [is_monitoring |-> is_monitoring,
                last_check |-> isoformat(last_check),
                total_seen_listings |-> Cardinality(seen_listings)]
  /\ posted' = (posted \/ Truthy(DISCORD_WEBHOOK_URL))
  /\ UNCHANGED <<config, stopping, monitor, op, filterCall, dedupCall, loops,
                 DISCORD_WEBHOOK_URL, bot, monitoring_task, starts, callback, undelivered>>

\* DiscordWebhookBot.close in the finally of main, and the end of asyncio.run
\* after it: the bot's task is cancelled, and so is every task still there when
\* main returns
BotClose ==
  /\ bot = "ready" /\ Suspended
  /\ loops' = [t \in 1..MaxLoops |-> IF live(t) THEN "cancelling" ELSE loops[t]]
  /\ bot' = "closed"
  /\ starts' = 0
  /\ status' = NoStatus
  /\ UNCHANGED <<config, stopping, monitor, op, filterCall, dedupCall,
                 DISCORD_WEBHOOK_URL, monitoring_task, callback, posted, undelivered>>

NextBot ==
  \/ Construct
  \/ BotStartMonitoring
  \/ StartupSent
  \/ \E t \in 1..MaxLoops : RunTask(t)
  \/ \E t \in 1..MaxLoops : BotCheck(t)
  \/ \E t \in 1..MaxLoops : HandleNewListings(t)
  \/ \E t \in 1..MaxLoops : Response(t)
  \/ \E t \in 1..MaxLoops : Paced(t)
  \/ \E t \in 1..MaxLoops : BotWake(t)
  \/ \E t \in 1..MaxLoops : TaskCancelled(t)
  \/ BotStopMonitoring
  \/ BotGetStatus
  \/ BotClose

SpecBot == InitBot /\ [][NextBot]_vars
----------------------------------------------------------------------------
(* Vocabulary of the properties *)

\* the references 1..n in order
Refs(n) == [i \in 1..n |-> i]

\* the elements of a sequence
Range(s) == {s[k] : k \in DOMAIN s}

\* the identities of the listings a list of references stands for
IdsOf(objs, refs) == {generate_listing_id(objs[refs[k]]) : k \in DOMAIN refs}

IdAt(i) == generate_listing_id(candidates[i])

\* the Seen Set of the last get_new_listings call as it stood after the reset check
AfterResetCheck == IF Cardinality(seen_entry) > 1000 THEN {} ELSE seen_entry

\* the cold-start rule does not fire and the call is a call of get_new_listings
NormalCall == op = "get_new_listings" /\ ~cold

\* the last call got the batch of the call before it, and no reset in between
SameBatchAgain == op = "get_new_listings" /\ repeat /\ Cardinality(seen_entry) <= 1000

\* the normal dedup pass of the last call found nothing new
ZeroNew == \A i \in DOMAIN candidates : IdAt(i) \in AfterResetCheck

----------------------------------------------------------------------------
(* Dedup Tracker *)

\* C1 as stated: when the cold-start rule does not fire, get_new_listings returns
\* exactly the candidates whose identity is not in the Seen Set S (as it stands
\* after the reset check), in input order, and leaves the Seen Set equal to S
\* united with the identities of the returned listings.
C1_AllUnseenReturned ==
  NormalCall =>
    /\ new_listings = SelectSeq(Refs(Len(candidates)), LAMBDA i : IdAt(i) \notin AfterResetCheck)
    /\ seen_listings = AfterResetCheck \cup IdsOf(candidates, new_listings)

\* C1 amended: when the cold-start rule does not fire, get_new_listings returns, in
\* input order, exactly the candidates whose identity is not in S and that are the
\* first candidate of the batch with that identity, and leaves the Seen Set equal
\* to S united with the identities of the returned listings.
C1_FirstUnseenReturned ==
  NormalCall =>
    /\ new_listings = SelectSeq(Refs(Len(candidates)),
                                LAMBDA i : /\ IdAt(i) \notin AfterResetCheck
                                           /\ \A j \in 1..(i - 1) : IdAt(j) # IdAt(i))
    /\ seen_listings = AfterResetCheck \cup IdsOf(candidates, new_listings)

\* a normal call on a non-empty Seen Set whose batch holds a seen candidate and two
\* unseen candidates of one identity
C1_Witness ==
  /\ NormalCall
  /\ \E i \in DOMAIN candidates : IdAt(i) \in AfterResetCheck
  /\ \E i, j \in DOMAIN candidates : i < j /\ IdAt(i) = IdAt(j) /\ IdAt(i) \notin AfterResetCheck
  /\ new_listings # <<>>

\* C2 as stated: a listing submitted again in the next cycle, with no reset in
\* between, is not returned: the second call returns an empty list.
C2_SecondCallEmpty == (SameBatchAgain /\ candidates # <<>>) => new_listings = <<>>

\* C3: a batch submitted again with no reset in between and without the cold-start
\* rule firing on the second call gives an empty list and leaves the Seen Set as
\* it was.
C3_IdempotentExclusion ==
  (SameBatchAgain /\ ~cold) => (new_listings = <<>> /\ seen_listings = seen_entry)

\* a non-empty batch submitted a second time, normal path
C3_Witness == SameBatchAgain /\ ~cold /\ candidates # <<>> /\ seen_listings # {}

\* C4: an identity in the Seen Set stays in it until a full reset: every step,
\* of a cycle, a status query, a start or a stop, leaves the old Seen Set a subset
\* of the new one, except a step in which get_new_listings runs on a Seen Set of
\* more than 1000 identities (the wholesale clear).
C4_SeenOnlyGrows ==
  [][ \/ seen_listings \subseteq seen_listings'
      \/ last_check' # last_check /\ Cardinality(seen_listings) > 1000 ]_vars

\* the monitor was stopped after a cycle that cleared the Seen Set and saw a
\* listing anew
C4_Witness ==
  /\ reset /\ Cardinality(seen_entry) > 1000
  /\ seen_listings # {} /\ seen_listings \cap seen_entry = {}
  /\ ~is_monitoring
  /\ \E t \in DOMAIN loops : loops[t] = "ended"

\* C5: a Seen Set of more than 1000 identities is cleared before any candidate is
\* examined, so every identity of the batch, seen before or not, is returned as
\* new and the Seen Set afterwards holds the batch's identities only; a Seen Set
\* of 1000 or fewer identities loses nothing.
C5_ResetAbove1000 ==
  op = "get_new_listings" =>
    /\ Cardinality(seen_entry) > 1000 =>
         /\ IdsOf(candidates, new_listings) = IdsOf(candidates, Refs(Len(candidates)))
         /\ seen_listings = IdsOf(candidates, Refs(Len(candidates)))
    /\ Cardinality(seen_entry) <= 1000 =>
         /\ seen_entry \subseteq seen_listings
         /\ ~cold => IdsOf(candidates, new_listings) \cap seen_entry = {}

\* a call on a Seen Set of more than 1000 returns a listing that was in it
C5_Witness ==
  /\ op = "get_new_listings"
  /\ Cardinality(seen_entry) > 1000
  /\ IdsOf(candidates, new_listings) \cap seen_entry # {}

\* C6: the cold-start path is taken exactly when the normal pass found nothing new,
\* the Seen Set holds fewer than 5 identities and the batch is not empty; the call
\* then returns the first 2 candidates (all of a shorter batch) and their
\* identities are in the Seen Set; three seen candidates on a Seen Set of size 3
\* give exactly 2 returned.
C6_ColdStart ==
  op = "get_new_listings" =>
    LET n == Len(candidates)
        fires == ZeroNew /\ Cardinality(AfterResetCheck) < 5 /\ n > 0
    IN /\ cold <=> fires
       /\ fires => /\ new_listings = Refs(IF n < 2 THEN n ELSE 2)
                   /\ IdsOf(candidates, new_listings) \subseteq seen_listings
       /\ (ZeroNew /\ ~fires) => new_listings = <<>>
       /\ (n = 3 /\ ZeroNew /\ Cardinality(seen_entry) = 3) => Len(new_listings) = 2

\* three candidates, all seen, on a Seen Set of size 3: two are returned
C6_Witness ==
  /\ op = "get_new_listings" /\ cold
  /\ Len(candidates) = 3 /\ ZeroNew /\ Cardinality(seen_entry) = 3
  /\ Len(new_listings) = 2

\* title, price and location of a listing
TitlePriceLocation(l) == <<Get(l, "title"), Get(l, "price"), Get(l, "location")>>

\* C7: two listings with the same title, price and location have the same identity,
\* whatever their description, url and timestamp.
C7_IdentityOfTitlePriceLocation ==
  \A i, j \in DOMAIN candidates :
    TitlePriceLocation(candidates[i]) = TitlePriceLocation(candidates[j]) => IdAt(i) = IdAt(j)

\* a batch with two listings that agree on title, price and location and differ in
\* description, url and timestamp
C7_Witness ==
  \E i, j \in DOMAIN candidates :
    /\ TitlePriceLocation(candidates[i]) = TitlePriceLocation(candidates[j])
    /\ Get(candidates[i], "description") # Get(candidates[j], "description")
    /\ Get(candidates[i], "url") # Get(candidates[j], "url")
    /\ Get(candidates[i], "timestamp") # Get(candidates[j], "timestamp")
    /\ IdAt(i) \in seen_listings

----------------------------------------------------------------------------
(* Listing Filter *)

\* the exclusion terms
AccessoryTerms ==
  { <<"c","a","s","e">>, <<"c","o","v","e","r">>, <<"c","h","a","r","g","e","r">>, <<"c","a","b","l","e">>, <<"s","c","r","e","e","n"," ","p","r","o","t","e","c","t","o","r">>, <<"w","a","r","r","a","n","t","y">>, <<"a","c","c","e","s","s","o","r","i","e","s">> }

\* title and description of a listing as the text the keywords are looked up in
TitlePlusDescription(l) == lower(Get(l, "title")) \o <<" ">> \o lower(Get(l, "description"))

HasKeyword(l, kws) == \E k \in DOMAIN kws : In(lower(kws[k]), TitlePlusDescription(l))

HasAccessoryTitle(l) == \E term \in AccessoryTerms : In(term, lower(Get(l, "title")))

HasPrice(l) == price_match(Get(l, "price")) # None

PriceOf(l) == int(price_match(Get(l, "price")))

\* what C8 asks of a listing that is kept
Qualifies(l, kws) ==
  /\ HasKeyword(l, kws)
  /\ HasPrice(l)
  /\ MIN_PRICE <= PriceOf(l) /\ PriceOf(l) <= MAX_PRICE
  /\ ~HasAccessoryTitle(l)

Kept(i) == i \in Range(filtered)

\* C8: filter_listings returns exactly the listings that contain a keyword in title
\* plus description (case-insensitively), have an extractable price, have it within
\* [MIN_PRICE, MAX_PRICE] and have no exclusion term in the title; an exclusion
\* term in the description alone does not exclude.
C8_FilterContract ==
  op = "filter_listings" =>
    filtered = SelectSeq(Refs(Len(raw)), LAMBDA i : Qualifies(raw[i], keywords))

\* a kept listing that has an exclusion term in its description, next to a dropped
\* one that has it in its title
C8_Witness ==
  /\ op = "filter_listings"
  /\ \E i \in DOMAIN raw :
       /\ Kept(i)
       /\ \E term \in AccessoryTerms : In(term, lower(Get(raw[i], "description")))
  /\ \E i \in DOMAIN raw : ~Kept(i) /\ HasKeyword(raw[i], keywords) /\ HasAccessoryTitle(raw[i])

\* the listing's price field is the number n, with or without the pound sign
PricedAt(l, n) == Get(l, "price") \in {str(n), <<"£">> \o str(n)}

\* C9 as stated: a listing that otherwise qualifies is kept when its price is
\* exactly MIN_PRICE or exactly MAX_PRICE and dropped when its price is
\* MIN_PRICE - 1 or MAX_PRICE + 1.
C9_PriceBoundaries ==
  op = "filter_listings" =>
    \A i \in DOMAIN raw :
      (HasKeyword(raw[i], keywords) /\ ~HasAccessoryTitle(raw[i])) =>
        /\ (PricedAt(raw[i], MIN_PRICE) \/ PricedAt(raw[i], MAX_PRICE)) => Kept(i)
        /\ (PricedAt(raw[i], MIN_PRICE - 1) \/ PricedAt(raw[i], MAX_PRICE + 1)) => ~Kept(i)

\* C10: every returned listing has a price that begins with the pound sign; one
\* whose price lacked it is returned with the price replaced by the pound sign and
\* the extracted number, one whose price had it is returned with every field as it
\* was.
C10_PriceShownInPounds ==
  op = "filter_listings" =>
    \A k \in DOMAIN filtered :
      LET before == raw[filtered[k]]
          after == heap[filtered[k]]
      IN /\ startswith(Get(after, "price"), <<"£">>)
         /\ ~startswith(Get(before, "price"), <<"£">>) =>
              after = SetItem(before, "price", <<"£">> \o str(PriceOf(before)))
         /\ startswith(Get(before, "price"), <<"£">>) => after = before

\* a returned listing whose price was rewritten (it had leading zeros and no pound
\* sign) next to a returned listing that had the pound sign
C10_Witness ==
  /\ op = "filter_listings"
  /\ \E k \in DOMAIN filtered :
       /\ ~startswith(Get(raw[filtered[k]], "price"), <<"£">>)
       /\ Get(heap[filtered[k]], "price") # <<"£">> \o Get(raw[filtered[k]], "price")
  /\ \E k \in DOMAIN filtered : startswith(Get(raw[filtered[k]], "price"), <<"£">>)


\* the list without its i-th element
Without(s, i) == [k \in 1..(Len(s) - 1) |-> IF k < i THEN s[k] ELSE s[k + 1]]

\* the price field is missing, or is a text without a digit
PriceUnreadable(l) ==
  \/ "price" \notin DOMAIN l
  \/ /\ l["price"] # PyNone
     /\ \A k \in DOMAIN l["price"] : ~IsDigit(l["price"][k])

\* the listing's title and description are texts
TextFields(l) == Get(l, "title") # PyNone /\ Get(l, "description") # PyNone

\* C11: a listing whose price is missing or has no digits is dropped without an
\* error: it is not returned and is left as it was, and the call raises, returns
\* and rewrites exactly as it does on the batch without that listing.
C11_UnreadablePriceDropped ==
  op \in {"filter_listings", "filter_listings_raised"} =>
    \A i \in DOMAIN raw :
      (PriceUnreadable(raw[i]) /\ TextFields(raw[i])) =>
        LET without == filter_listings(Without(raw, i), keywords)
        IN /\ without.raised <=> op = "filter_listings_raised"
           /\ ~Kept(i)
           /\ heap[i] = raw[i]
           /\ ~without.raised =>
                Deref(heap, filtered) = Deref(without.listings, without.filtered)

\* a listing without digits in its price in front of a listing that is returned
C11_Witness ==
  /\ op = "filter_listings"
  /\ Len(raw) = 2
  /\ PriceUnreadable(raw[1]) /\ HasKeyword(raw[1], keywords) /\ ~HasAccessoryTitle(raw[1])
  /\ filtered = <<2>>

----------------------------------------------------------------------------
(* Polling loop *)

\* loop t goes from one place to another in this step
Moves(t, from, to) == loops[t] = from /\ loops'[t] = to

\* C12: start_monitoring sets the running flag and begins the cycles; in a cycle
\* the Source's batch goes to the filter, the filter's list to the dedup tracker,
\* the callback is awaited only with a non-empty list of new listings, then the
\* loop sleeps for the interval; after the sleep the loop starts a new cycle as
\* long as the flag is set and ends when it is not, and stop_monitoring clears
\* the flag.
C12_CycleOrder ==
  [][ /\ \A t \in DOMAIN loops :
           loops'[t] # loops[t] =>
             \/ Moves(t, "unborn", "fetch") /\ is_monitoring'
             \/ /\ Moves(t, "fetch", "callback")
                /\ filtered' = filter_listings(raw', get_search_keywords).filtered
                /\ candidates' = Deref(heap', filtered')
                /\ new_listings' # <<>>
                /\ callback'[t].listings = Deref(candidates', new_listings')
             \/ /\ Moves(t, "fetch", "sleep")
                /\ op' = "filter_listings_raised" \/ new_listings' = <<>>
             \/ Moves(t, "callback", "sleep")
             \/ Moves(t, "sleep", "fetch") /\ is_monitoring
             \/ Moves(t, "sleep", "ended") /\ ~is_monitoring
      /\ (is_monitoring /\ ~is_monitoring') => loops' = loops ]_vars

\* one loop has ended after a stop while another awaits the callback
C12_Witness ==
  \E t, u \in DOMAIN loops :
    /\ loops[t] = "ended" /\ loops[u] = "callback"
    /\ is_monitoring /\ last_check # 0

\* the step ends a cycle of loop t in which the Source or the filter raised
ErrorCycle(t) ==
  /\ loops[t] = "fetch" /\ loops'[t] # "fetch"
  /\ op' \in {"fetch_failed", "filter_listings_raised"}

\* C13 as stated: an error of the Source or the filter is caught, the cycle yields
\* no new listings, the callback is not awaited, the loop goes on to its sleep
\* and a later cycle, and on a Source failure the Seen Set is left unchanged.
C13_SourceFailureKeepsSeenSet ==
  [][ \A t \in DOMAIN loops :
        ErrorCycle(t) =>
          /\ loops'[t] = "sleep"
          /\ callback'[t].listings = <<>>
          /\ op' = "fetch_failed" => seen_listings' = seen_listings ]_vars

\* C13 amended: an error of the Source or the filter is caught, the cycle yields
\* no new listings, the callback is not awaited, the loop goes on to its sleep
\* and a later cycle, and on a Source failure no identity is added to the Seen
\* Set: it is left unchanged unless it held more than 1000 identities, in which
\* case the reset check clears it.
C13_ErrorCycleYieldsNothing ==
  [][ \A t \in DOMAIN loops :
        ErrorCycle(t) =>
          /\ loops'[t] = "sleep"
          /\ callback'[t].listings = <<>>
          /\ op' = "fetch_failed" =>
               seen_listings' = IF Cardinality(seen_listings) > 1000 THEN {} ELSE seen_listings ]_vars

\* a Source failure on a non-empty Seen Set has sent the loop to its sleep
C13_Witness ==
  /\ op = "fetch_failed"
  /\ seen_entry # {} /\ seen_listings = seen_entry
  /\ \E t \in DOMAIN loops : loops[t] = "sleep"

\* C14 as stated: after a cycle in which the Source or the filter raised, the loop
\* is in the fallback sleep of 60 seconds, not in the sleep for the interval
\* ("sleep" is the await of asyncio.sleep(check_interval)).
C14_FallbackSleepAfterError ==
  [][ \A t \in DOMAIN loops : ErrorCycle(t) => loops'[t] # "sleep" ]_vars

\* C19: a step that returns a status dict leaves the Seen Set, the running flag
\* and the time of the last check as they were, and the Seen Set changes only in
\* a step in which a loop runs get_new_listings.
C19_StatusReadsOnly ==
  [][ /\ status' # NoStatus => monitor' = monitor
      /\ seen_listings' # seen_listings =>
           \E t \in DOMAIN loops : loops[t] = "fetch" /\ loops'[t] # "fetch" ]_vars

\* a status taken while a loop is in the middle of a cycle, on a non-empty Seen Set
C19_Witness ==
  /\ status # NoStatus
  /\ status.total_seen_listings > 0 /\ status.is_monitoring
  /\ \E t \in DOMAIN loops : loops[t] = "callback"

----------------------------------------------------------------------------
(* Webhook bot *)

\* the places of a task inside a cycle, from the Listing Source to the pause
\* after the last notification
InCycle == {"fetch", "callback", "post", "pace"}

\* C15 as stated: a stop request does not interrupt a cycle that has begun: a
\* step that leaves the bot open never cancels a task that is between the
\* retrieval and the end of the delivery of its new listings, and after its sleep
\* a task starts a cycle only when the flag is set.
C15_StopAtCycleBoundary ==
  [][ \A t \in DOMAIN loops :
        /\ (bot' = "ready" /\ loops[t] \in InCycle) => loops'[t] # "cancelling"
        /\ Moves(t, "sleep", "fetch") => is_monitoring ]_vars

\* C16 as stated: at most one task of the bot is made and not done, and at most
\* one task is inside a cycle.
C16_OneLiveTask ==
  /\ Cardinality({t \in DOMAIN loops : live(t)}) <= 1
  /\ Cardinality({t \in DOMAIN loops : loops[t] \in InCycle}) <= 1

\* the step ends a cycle of task t: the loop comes to its sleep or the task is done
CycleOver(t) == loops[t] \notin {"sleep", "cancelled"} /\ loops'[t] \in {"sleep", "cancelled"}

\* the listings of the record, by index, for which a delivery was attempted
Attempted(c) == [i \in 1..Len(c.attempts) |-> c.attempts[i].listing]

\* C17 as stated: when a cycle is over, the deliveries attempted in it are one for
\* each listing the Dedup Tracker returned, in their order.
C17_OneAttemptEach ==
  [][ \A t \in DOMAIN loops :
        CycleOver(t) =>
          Attempted(callback'[t]) = [i \in 1..Len(callback'[t].listings) |-> i] ]_vars

\* C18 as stated: no listing is attempted twice in a cycle; when the callback
\* returns, every listing after one whose delivery failed has been attempted; the
\* identity of a listing whose delivery failed stays in the Seen Set, and no
\* later cycle returns that listing as new.
C18_FailedDeliveryNotRepeated ==
  [][ /\ \A t \in DOMAIN loops :
           /\ \A i, j \in DOMAIN callback'[t].attempts :
                Attempted(callback'[t])[i] = Attempted(callback'[t])[j] => i = j
           /\ (loops[t] \in InCycle /\ loops'[t] = "sleep") =>
                \A i \in DOMAIN callback'[t].attempts :
                  callback'[t].attempts[i].response = "failed" =>
                    \A n \in (Attempted(callback'[t])[i] + 1)..Len(callback'[t].listings) :
                      \E j \in DOMAIN callback'[t].attempts : Attempted(callback'[t])[j] = n
           /\ (loops[t] = "fetch" /\ loops'[t] # "fetch") =>
                \A n \in DOMAIN callback'[t].listings :
                  generate_listing_id(callback'[t].listings[n]) \notin undelivered
      /\ undelivered' \subseteq seen_listings' ]_vars

\* C20: without a webhook URL in the configuration validate_config raises and no
\* bot is constructed; no task is made, no call of start_monitoring is under
\* way, no cycle has run and nothing has been posted.
C20_NoStartWithoutURL ==
  ~Truthy(DISCORD_WEBHOOK_URL) =>
    /\ bot \in {"none", "failed"}
    /\ monitoring_task = 0 /\ starts = 0
    /\ \A t \in DOMAIN loops : loops[t] = "unborn"
    /\ ~is_monitoring /\ last_check = 0 /\ op = "init"
    /\ ~posted

\* the construction of the bot has failed for want of a URL
C20_Witness == ~Truthy(DISCORD_WEBHOOK_URL) /\ bot = "failed"

----------------------------------------------------------------------------
(* Dedup Tracker, from one call to the next *)

\* the step is a call of get_new_listings that follows a cold-start emission and
\* gets the batch of that emission, with no reset in between
AgainAfterColdStart ==
  /\ op = "get_new_listings" /\ cold
  /\ op' = "get_new_listings" /\ candidates' = candidates
  /\ Cardinality(seen_listings) <= 1000

\* C21 as stated: the listings a cold-start emission has returned and marked as
\* seen are not returned by the following call with the same batch.
C21_ColdStartDoesNotRepeat ==
  [][ AgainAfterColdStart =>
        IdsOf(candidates', new_listings') \cap IdsOf(candidates, new_listings) = {} ]_vars

\* C23: the Seen Set is bounded: a call of get_new_listings leaves at most 1000
\* identities plus the length of its batch, a call that found more than 1000
\* starts from none and leaves at most the length of its batch, and the set loses
\* an identity only in such a call.
C23_SeenSetBounded ==
  [][ op' = "get_new_listings" =>
        /\ Cardinality(seen_listings') <= 1000 + Len(candidates')
        /\ reset' => Cardinality(seen_listings') <= Len(candidates')
        /\ ~reset' => Cardinality(seen_listings) <= 1000
        /\ ~(seen_listings \subseteq seen_listings') =>
             (Cardinality(seen_listings) > 1000 /\ reset') ]_vars

\* a call has left more than 1000 identities in the Seen Set
C23_Witness == op = "get_new_listings" /\ Cardinality(seen_listings) > 1000 /\ ~reset

\* C24: after a call of get_new_listings, on the normal path and on the cold-start
\* path alike, the identity of every candidate of the batch is in the Seen Set,
\* and the call has added nothing but identities of its batch: after a reset the
\* set holds identities of the batch only, otherwise the identities it gained are
\* those of listings of the batch that the normal pass returned.
C24_SeenSetIsBatchesSinceReset ==
  [][ op' = "get_new_listings" =>
        /\ \A i \in DOMAIN candidates' : generate_listing_id(candidates'[i]) \in seen_listings'
        /\ reset' => seen_listings' \subseteq IdsOf(candidates', Refs(Len(candidates')))
        /\ (seen_listings' \ seen_listings) \subseteq IdsOf(candidates', Refs(Len(candidates')))
        /\ ~cold' => (seen_listings' \ seen_listings) \subseteq IdsOf(candidates', new_listings')
        /\ (cold' /\ ~reset') => seen_listings' \ seen_listings = {} ]_vars

\* a cold-start emission on a Seen Set that holds an identity from an earlier batch
C24_Witness ==
  /\ op = "get_new_listings" /\ cold
  /\ \E x \in seen_listings : \A i \in DOMAIN candidates : IdAt(i) # x

\* C25 as stated: the list one call of get_new_listings returns holds no two
\* listings of the same identity.
C25_ReturnedIdentitiesDistinct ==
  op = "get_new_listings" =>
    \A i, j \in DOMAIN new_listings :
      IdAt(new_listings[i]) = IdAt(new_listings[j]) => i = j

\* C26: a call that takes the cold-start path leaves the Seen Set as it found it:
\* the identities it marks were in the set, and no reset ran; and a listing whose
\* identity is in the Seen Set when the batch is examined (after the reset check)
\* is returned only on the cold-start path, on a set of fewer than 5 identities.
C26_ColdStartKeepsSeenSet ==
  op = "get_new_listings" =>
    /\ cold => /\ seen_listings = seen_entry
               /\ Cardinality(seen_listings) = Cardinality(seen_entry)
               /\ IdsOf(candidates, new_listings) \subseteq seen_entry
               /\ ~reset
    /\ (\E k \in DOMAIN new_listings : IdAt(new_listings[k]) \in AfterResetCheck) =>
         (cold /\ Cardinality(AfterResetCheck) < 5)

\* a cold-start emission on a Seen Set of 4 identities
C26_Witness ==
  /\ op = "get_new_listings" /\ cold
  /\ Cardinality(seen_entry) = 4 /\ new_listings # <<>>

----------------------------------------------------------------------------
(* Webhook bot, deliveries and the running flag *)

\* the step begins a delivery in the cycle of task t
BeginsDelivery(t) ==
  /\ callback'[t].listings = callback[t].listings
  /\ Len(callback'[t].attempts) > Len(callback[t].attempts)

\* C22: within a cycle the deliveries are made one at a time in list order: a
\* delivery begins when the callback begins or when the pause after the delivery
\* before it is over, never while a POST of the same task is awaited, and it is
\* the delivery of the first listing not yet handled that is_valid_phone_listing
\* lets through.
C22_DeliveriesInTurn ==
  [][ \A t \in DOMAIN loops :
        BeginsDelivery(t) =>
          LET before == callback[t].attempts
              n == callback'[t].attempts[Len(before) + 1].listing
          IN /\ callback'[t].attempts = Append(before, callback'[t].attempts[Len(before) + 1])
             /\ loops[t] = IF before = <<>> THEN "callback" ELSE "pace"
             /\ \A i \in DOMAIN before :
                  before[i].response # "awaited" /\ before[i].listing < n
             /\ \A i \in 1..(n - 1) :
                  ~is_valid_phone_listing(callback[t].listings[i])
                    \/ \E j \in DOMAIN before : before[j].listing = i ]_vars

\* the second listing of a cycle is being posted after the first was answered
C22_Witness ==
  \E t \in DOMAIN loops :
    /\ loops[t] = "post"
    /\ Len(callback[t].attempts) = 2
    /\ callback[t].attempts[1].response \in {"204", "failed"}
    /\ callback[t].attempts[2] = [listing |-> 2, response |-> "awaited"]

\* C29: the loop awaits the callback only with a list that is not empty, and in
\* the step in which it does so the identity of every listing of that list is in
\* the Seen Set.
C29_CallbackGetsMarkedListings ==
  [][ \A t \in DOMAIN loops :
        (loops[t] # "callback" /\ loops'[t] = "callback") =>
          /\ callback'[t].listings # <<>>
          /\ \A n \in DOMAIN callback'[t].listings :
               generate_listing_id(callback'[t].listings[n]) \in seen_listings' ]_vars

\* a loop awaits the callback with two listings, one of them with its price
\* rewritten by the filter
C29_Witness ==
  \E t \in DOMAIN loops :
    /\ loops[t] = "callback"
    /\ Len(callback[t].listings) = 2
    /\ callback[t].listings[1] # raw[1]
    /\ \A n \in DOMAIN callback[t].listings :
         generate_listing_id(callback[t].listings[n]) \in seen_listings

\* C27 as stated: a loop that was running when stop_monitoring was called ends
\* when it next comes to its loop test, whether or not start_monitoring has been
\* called again in between.
C27_StoppedLoopExits ==
  [][ \A t \in DOMAIN loops :
        (stopping[t] /\ loops[t] = "sleep" /\ loops'[t] # "sleep") =>
          loops'[t] = "ended" ]_vars

\* C28 as stated: the running flag agrees with the bot's tasks: it is set while a
\* task that has begun to run is in a cycle or asleep, and it is clear once the
\* tasks that were made have ended or been cancelled, by stop_monitoring or by
\* close.
C28_FlagAgreesWithTask ==
  /\ (\E t \in DOMAIN loops : loops[t] \in Running) => is_monitoring
  /\ ( /\ \A t \in DOMAIN loops : loops[t] \in {"unborn", "ended", "cancelled"}
       /\ \E t \in DOMAIN loops : loops[t] = "cancelled" ) => ~is_monitoring
============================================================================
